---------------------------- MODULE Spec2Model ----------------------------
(***************************************************************************)
(* A model of scrape.py: the Bot API documentation scraper.                *)
(*                                                                         *)
(* Text.  A Python str is modelled as a sequence of tokens.  A token is a  *)
(* word, a glued punctuation mark ("," or "."), which follows the previous *)
(* token without a space, or the line break NL.  Two consecutive tokens    *)
(* are separated by exactly one space unless the second is glued or one of *)
(* them is NL.  Every substring test of the code (" or ", ", ",            *)
(* "Array of ", the regular expressions) is computed on that rendering.    *)
(*                                                                         *)
(* Dictionaries.  A Python dict of entity records keeps insertion order    *)
(* and every record stores its own key under "name", so a category is a    *)
(* sequence of records, and a record is a function whose DOMAIN is the set *)
(* of keys present.                                                        *)
(***************************************************************************)
EXTENDS Naturals, Sequences, FiniteSets, TLC

VARIABLES
    pc,         \* where the process is: scrape, verify_types, verify_methods,
                \* dump, or how it ended (done, failed, abort_table, raised)
    n,          \* number of document nodes consumed by the loop
    x,          \* the node the loop handled last
    curr_name,  \* retrieve_api_info: curr_name
    curr_type,  \* retrieve_api_info: curr_type
    items,      \* the registry: [methods |-> ..., types |-> ...]
    log,        \* the lines the validator printed
    api_json,   \* the artifact: <<>> until written, then <<items>>
    t_in,       \* type parser harness: the input expression
    t_out       \* type parser harness: <<>> until parsed, then <<result>>

vars == <<pc, n, x, curr_name, curr_type, items, log, api_json, t_in, t_out>>

-----------------------------------------------------------------------------
(* Program constants *)

TG_CORE_TYPES == {<<"String">>, <<"Boolean">>, <<"Integer">>, <<"Float">>}
ROOT_URL == "https://core.telegram.org"
API_URL == ROOT_URL \o "/bots/api"
METHODS == "methods"
TYPES == "types"
APPROVED_NO_SUBTYPES == {<<"VoiceChatStarted">>, <<"InputFile">>, <<"CallbackGame">>}

-----------------------------------------------------------------------------
(* Text *)

NL == "\n"
Glued == {",", "."}
ARRAY_OF == <<"Array", "of">>

\* Tokens whose first character is an upper-case letter (str.isupper on [0]).
UpperInitial ==
    {"A", "B", "X", "InputFile", "Message", "Messages", "Int", "Integer",
     "True", "Bool", "Boolean", "Float", "String", "Array", "Returns", "On",
     "Use", "Sending", "Optional", "Yes"}

\* Lower-casing of the tokens the case-insensitive patterns look for.
Lower(tok) ==
    CASE tok = "Returns" -> "returns"
      [] tok = "On" -> "on"
      [] tok = "Array" -> "array"
      [] OTHER -> tok

\* t[i] is followed by one space in the rendering.
SpaceAfter(t, i) ==
    /\ i < Len(t)
    /\ t[i] # NL
    /\ t[i + 1] # NL
    /\ t[i + 1] \notin Glued

\* t[i] is preceded by one space in the rendering.
SpaceBefore(t, i) == i > 1 /\ t[i] \notin Glued /\ SpaceAfter(t, i - 1)

Drop(t, k) == SubSeq(t, k + 1, Len(t))

RECURSIVE LStrip(_)
LStrip(t) == IF t # <<>> /\ Head(t) = NL THEN LStrip(Tail(t)) ELSE t

RECURSIVE RStrip(_)
RStrip(t) ==
    IF t # <<>> /\ t[Len(t)] = NL THEN RStrip(SubSeq(t, 1, Len(t) - 1)) ELSE t

\* str.strip(): the spaces are implicit, the line breaks are tokens.
Strip(t) == LStrip(RStrip(t))

\* t.startswith("Array of ")
StartsWithArrayOf(t) ==
    /\ Len(t) >= 3
    /\ SubSeq(t, 1, 2) = ARRAY_OF
    /\ SpaceAfter(t, 1)
    /\ SpaceAfter(t, 2)

\* t.split(" " + w + " "): left to right, matches do not overlap.
RECURSIVE SplitWord(_, _)
SplitWord(t, w) ==
    LET hits == {i \in 1..Len(t) : t[i] = w /\ SpaceBefore(t, i) /\ SpaceAfter(t, i)}
    IN  IF hits = {} THEN <<t>>
        ELSE LET i == CHOOSE j \in hits : \A k \in hits : j <= k
             IN  <<SubSeq(t, 1, i - 1)>> \o SplitWord(Drop(t, i), w)

\* t.split(", ")
RECURSIVE SplitComma(_)
SplitComma(t) ==
    LET hits == {i \in 1..Len(t) : t[i] = "," /\ SpaceAfter(t, i)}
    IN  IF hits = {} THEN <<t>>
        ELSE LET i == CHOOSE j \in hits : \A k \in hits : j <= k
             IN  <<SubSeq(t, 1, i - 1)>> \o SplitComma(Drop(t, i))

RECURSIVE Flatten(_)
Flatten(ss) == IF ss = <<>> THEN <<>> ELSE Head(ss) \o Flatten(Tail(ss))

\* [F(e) for e in s]
MapSeq(F(_), s) == [i \in 1..Len(s) |-> F(s[i])]

\* [r for e in s for r in F(e)]
FlatMap(F(_), s) == Flatten(MapSeq(F, s))

-----------------------------------------------------------------------------
(* Type-String Parser *)

get_proper_type(t) ==
    IF t = <<"Messages">> THEN <<"Message">>
    ELSE IF t = <<"Float", "number">> THEN <<"Float">>
    ELSE IF t = <<"Int">> THEN <<"Integer">>
    ELSE IF t = <<"True">> \/ t = <<"Bool">> THEN <<"Boolean">>
    ELSE t

\* Lines 228-230: the fragments of t, split on " or ", then " and ", then ", ".
fixed_ors(t) == MapSeq(Strip, SplitWord(t, "or"))
fixed_ands(t) == MapSeq(Strip, FlatMap(LAMBDA fo : SplitWord(fo, "and"), fixed_ors(t)))
fixed_commas(t) == MapSeq(Strip, FlatMap(SplitComma, fixed_ands(t)))

\* Lines 223-226: pref, and t without it.
ArrayPrefix(t) == IF StartsWithArrayOf(t) THEN ARRAY_OF ELSE <<>>

clean_tg_type(t) ==
    MapSeq(LAMBDA f : ArrayPrefix(t) \o get_proper_type(f),
           fixed_commas(Drop(t, Len(ArrayPrefix(t)))))

-----------------------------------------------------------------------------
(* Text Normalizer, on tokens: the whitespace runs (the line breaks that   *)
(* replace <br> included) collapse to the single spaces the rendering      *)
(* implies, and the typographic glyphs, written here by their code points, *)
(* become their ASCII forms: three full stops for the ellipsis.            *)

CleanGlyph(tok) ==
    CASE tok = "U+2026" -> <<".", ".", ".">>
      [] tok = "U+2013" -> <<"-">>
      [] tok = "U+2014" -> <<"-">>
      [] tok = "U+201D" -> <<"\"">>
      [] tok = "U+201C" -> <<"\"">>
      [] OTHER -> <<tok>>

clean_tg_description(t) == FlatMap(CleanGlyph, SelectSeq(t, LAMBDA tok : tok # NL))

-----------------------------------------------------------------------------
(* Registry *)

Has(rec, k) == k \in DOMAIN rec

\* dict.get(k, default)
Get(rec, k, default) == IF Has(rec, k) THEN rec[k] ELSE default

\* rec[k] = v
Set(rec, k, v) == [kk \in DOMAIN rec \cup {k} |-> IF kk = k THEN v ELSE rec[kk]]

\* Position of key name in a category, 0 when absent.
Find(cat, name) ==
    IF \E i \in 1..Len(cat) : cat[i].name = name
    THEN CHOOSE i \in 1..Len(cat) : cat[i].name = name
    ELSE 0

Keys(cat) == {cat[i].name : i \in 1..Len(cat)}

\* items[c][name]
Entity(its, c, name) == its[c][Find(its[c], name)]

\* items[c][name] = rec: a new key goes last, an old key keeps its place.
Put(its, c, name, rec) ==
    LET i == Find(its[c], name)
    IN  [its EXCEPT ![c] = IF i = 0 THEN Append(@, rec) ELSE [@ EXCEPT ![i] = rec]]

-----------------------------------------------------------------------------
(* Return-Type Inferrer *)

RECURSIVE JoinLines(_)
JoinLines(lines) ==
    IF lines = <<>> THEN <<>>
    ELSE IF Len(lines) = 1 THEN lines[1]
    ELSE lines[1] \o <<NL>> \o JoinLines(Tail(lines))

Min(S) == CHOOSE a \in S : \A b \in S : a <= b
Max(S) == CHOOSE a \in S : \A b \in S : a >= b

\* a word of ret_str.split(): a token that starts after white space (or
\* starts the text) with the glued marks that follow it
RECURSIVE Words(_)
Words(g) ==
    IF g = <<>> THEN <<>>
    ELSE IF Head(g) = NL THEN Words(Tail(g))
    ELSE LET rest == Tail(g)
             k == IF \E i \in 1..Len(rest) : rest[i] \notin Glued
                  THEN Min({i \in 1..Len(rest) : rest[i] \notin Glued}) - 1
                  ELSE Len(rest)
         IN  <<<<Head(g)>> \o SubSeq(rest, 1, k)>> \o Words(Drop(rest, k))

\* ret.translate(str.maketrans("", "", string.punctuation))
StripPunctuation(word) == SelectSeq(word, LAMBDA tok : tok \notin Glued)

\* "array of " (any case) starts at g[i]
ArrayOfAt(g, i) ==
    /\ i + 2 <= Len(g)
    /\ Lower(g[i]) = "array"
    /\ Lower(g[i + 1]) = "of"
    /\ SpaceAfter(g, i)
    /\ SpaceAfter(g, i + 1)

\* (?:array of )+ from g[i]: the index of the token after the last repeat
RECURSIVE SkipArrayOf(_, _)
SkipArrayOf(g, i) == IF ArrayOfAt(g, i) THEN SkipArrayOf(g, i + 2) ELSE i

\* Lines 149-153: the array_match branch, matching from g[i].
ArrayReturn(g, i) ==
    MapSeq(LAMBDA r : ARRAY_OF \o r, clean_tg_type(<<g[SkipArrayOf(g, i)]>>))

\* Lines 155-160: the capitalised words, without their punctuation.
WordReturns(g) ==
    FlatMap(LAMBDA w : clean_tg_type(StripPunctuation(w)),
            SelectSeq(Words(g), LAMBDA w : w[1] \in UpperInitial))

ArrayHits(g) == {i \in 1..Len(g) : ArrayOfAt(g, i)}

\* The value extract_return_type stores in "returns".
extract_return_type(ret_str) ==
    IF ArrayHits(ret_str) # {}
    THEN ArrayReturn(ret_str, Min(ArrayHits(ret_str)))
    ELSE WordReturns(ret_str)

\* "on success," or "returns" (any case) starts at d[i]
KeywordAt(d, i) ==
    \/ Lower(d[i]) = "returns"
    \/ /\ i + 2 <= Len(d)
       /\ Lower(d[i]) = "on"
       /\ Lower(d[i + 1]) = "success"
       /\ d[i + 2] = ","

\* [^.]* from d[k]: the tokens up to the next full stop
UpToStop(d, k) ==
    LET stops == {j \in k..Len(d) : d[j] = "."}
        e == IF stops = {} THEN Len(d) + 1 ELSE Min(stops)
    IN  SubSeq(d, k, e - 1)

\* re.search("(?:on success,|returns)([^.]*)(?:on success)?", ...): <<>> when
\* there is no match, else <<group(1)>>
ret_search(d) ==
    LET hits == {i \in 1..Len(d) : KeywordAt(d, i)}
    IN  IF hits = {} THEN <<>>
        ELSE LET i == Min(hits)
                 k == IF Lower(d[i]) = "returns" THEN i + 1 ELSE i + 3
             IN  <<UpToStop(d, k)>>

\* "is returned" (any case) starts at d[i]
IsReturnedAt(d, i) ==
    i + 1 <= Len(d) /\ Lower(d[i]) = "is" /\ Lower(d[i + 1]) = "returned"

\* re.search("([^.]*)(?:is returned)", ...): the match starts where the
\* sentence of the first "is returned" starts, and the greedy group ends at
\* the last "is returned" of that sentence
ret_search2(d) ==
    LET hits == {i \in 1..Len(d) : IsReturnedAt(d, i)}
    IN  IF hits = {} THEN <<>>
        ELSE LET e1 == Min(hits)
                 s == Max({j \in 1..e1 : d[j] = "."} \cup {0}) + 1
                 e == Max({i \in hits : \A j \in s..(i - 1) : d[j] # "."})
             IN  <<SubSeq(d, s, e - 1)>>

\* Lines 127-130: the text given to extract_return_type, <<>> when neither
\* pattern matches.
Captured(a, b) == IF a # <<>> THEN a ELSE b

\* The record of the method after get_method_return_type.
StoreReturns(rec, g) ==
    IF g = <<>> THEN rec ELSE Set(rec, "returns", extract_return_type(Strip(g[1])))

get_method_return_type(description, rec) ==
    StoreReturns(rec, Captured(ret_search(description), ret_search2(description)))

-----------------------------------------------------------------------------
(* Entity Segmenter and the extractors it calls *)

\* What one step leaves behind: where the process is, and the loop's state.
State(p, cn, ct, its) == [pc |-> p, curr_name |-> cn, curr_type |-> ct, items |-> its]

\* d[k] = v for the record of the open entity
Update(its, cn, ct, k, v) == Put(its, ct, cn, Set(Entity(its, ct, cn), k, v))

\* Line 139 and lines 141-143: the record of a new entity.
NewRecord(cn, href) ==
    IF href # "" THEN [name |-> cn, href |-> API_URL \o href] ELSE [name |-> cn]

\* Lines 134-137.
Category(text) == IF text[1] \in UpperInitial THEN TYPES ELSE METHODS

\* The state after get_type_and_name for a header whose text is not empty.
get_type_and_name(xn, anchor, its) ==
    State("scrape", xn.text, Category(xn.text),
          Put(its, Category(xn.text), xn.text, NewRecord(xn.text, anchor.href)))

\* desc.startswith("Optional. ")
StartsWithOptional(desc) ==
    /\ Len(desc) >= 3
    /\ desc[1] = "Optional"
    /\ desc[2] = "."
    /\ SpaceAfter(desc, 2)

Field(name, types, required, description) ==
    [name |-> name, types |-> types, required |-> required, description |-> description]

\* The field record of one row of the right width.
FieldOf(ct, children) ==
    Field(children[1],
          clean_tg_type(children[2]),
          IF ct = TYPES
          THEN ~StartsWithOptional(clean_tg_description(children[3]))
          ELSE children[3] = <<"Yes">>,
          clean_tg_description(children[Len(children)]))

\* The row is one get_fields accepts for the category.
RowFits(ct, children) ==
    \/ ct = TYPES /\ Len(children) = 3
    \/ ct = METHODS /\ Len(children) = 4

\* get_fields with the else branch skipping the row instead of exiting.
get_fields_skipping(cn, ct, xn, its) ==
    State("scrape", cn, ct,
          Update(its, cn, ct, "fields",
                 MapSeq(LAMBDA row : FieldOf(ct, row),
                        SelectSeq(xn.rows, LAMBDA row : RowFits(ct, row)))))

\* get_fields: exit(1) at the first row of another width, before "fields" is
\* stored.
get_fields(cn, ct, xn, its) ==
    IF \A i \in 1..Len(xn.rows) : RowFits(ct, xn.rows[i])
    THEN State("scrape", cn, ct,
               Update(its, cn, ct, "fields", MapSeq(LAMBDA row : FieldOf(ct, row), xn.rows)))
    ELSE State("abort_table", cn, ct, its)

\* Lines 78-79.
StoreSubtypes(cn, ct, list_contents, its) ==
    IF ct = TYPES THEN Update(its, cn, ct, "subtypes", list_contents) ELSE its

\* Line 82: += on a record without "description" raises KeyError.
ExtendDescription(cn, ct, list_contents, its) ==
    IF ~Has(Entity(its, ct, cn), "description") THEN State("raised", cn, ct, its)
    ELSE State("scrape", cn, ct,
               Update(its, cn, ct, "description",
                      Entity(its, ct, cn).description
                      \o MapSeq(LAMBDA li : <<"-">> \o li, list_contents)))

BulletList(cn, ct, list_contents, its) ==
    ExtendDescription(cn, ct, list_contents, StoreSubtypes(cn, ct, list_contents, its))

get_subtypes(cn, ct, xn, its) ==
    IF cn = <<"InputFile">> THEN State("scrape", cn, ct, its)
    ELSE BulletList(cn, ct, MapSeq(clean_tg_description, xn.li), its)

\* Line 52 with the description assigned instead of appended to.
AppendDescription_assigning(cn, ct, xn, its) ==
    State("scrape", cn, ct,
          Update(its, cn, ct, "description", <<clean_tg_description(xn.text)>>))

\* Line 52.
AppendDescription(cn, ct, xn, its) ==
    State("scrape", cn, ct,
          Update(its, cn, ct, "description",
                 Append(Get(Entity(its, ct, cn), "description", <<>>),
                        clean_tg_description(xn.text))))

\* Lines 51-58: the node is routed to the open entity.
Dispatch(xn, cn, ct, its) ==
    IF xn.name = "p" THEN AppendDescription(cn, ct, xn, its)
    ELSE IF xn.name = "table" THEN get_fields(cn, ct, xn, its)
    ELSE IF xn.name = "ul" THEN get_subtypes(cn, ct, xn, its)
    ELSE State("scrape", cn, ct, its)

\* Lines 60-63 with the inferrer given the newest line only.
WithReturns_newest_line(rec) ==
    IF Get(rec, "description", <<>>) # <<>>
    THEN get_method_return_type(rec.description[Len(rec.description)], rec)
    ELSE rec

\* Lines 60-63.
WithReturns(rec) ==
    IF Get(rec, "description", <<>>) # <<>>
    THEN get_method_return_type(JoinLines(rec.description), rec)
    ELSE rec

InferReturns(st) ==
    IF st.pc = "scrape" /\ st.curr_type = METHODS
    THEN [st EXCEPT !.items = Put(st.items, METHODS, st.curr_name,
                                  WithReturns(Entity(st.items, METHODS, st.curr_name)))]
    ELSE st

\* Lines 48-63.
Route(xn, st) ==
    IF st.pc # "scrape" \/ st.curr_type = "" \/ st.curr_name = <<>> THEN st
    ELSE InferReturns(Dispatch(xn, st.curr_name, st.curr_type, st.items))

\* Lines 33-36 with the test for "h3" left out.
AfterBoundary_hr_only(xn, cn, ct, its) ==
    IF xn.name = "hr" THEN State("scrape", <<>>, "", its)
    ELSE State("scrape", cn, ct, its)

\* Lines 33-36.
AfterBoundary(xn, cn, ct, its) ==
    IF xn.name = "h3" \/ xn.name = "hr" THEN State("scrape", <<>>, "", its)
    ELSE State("scrape", cn, ct, its)

HasDash(name) == \E i \in 1..Len(name) : name[i] = "-"

\* Lines 38-46.  x.find("a") may be None, and then anchor.get raises
\* AttributeError; x.text may be empty, and then x.text[0] raises IndexError.
AfterHeader(xn, st) ==
    IF xn.name # "h4" THEN st
    ELSE IF xn.anchor = <<>> THEN [st EXCEPT !.pc = "raised"]
    ELSE IF xn.anchor[1].name # <<>> /\ HasDash(xn.anchor[1].name)
    THEN State("continue", <<>>, "", st.items)
    ELSE IF xn.text = <<>> THEN [st EXCEPT !.pc = "raised"]
    ELSE get_type_and_name(xn, xn.anchor[1], st.items)

\* continue: on to the next node
Continue(st) == IF st.pc = "continue" THEN [st EXCEPT !.pc = "scrape"] ELSE st

\* One iteration of the loop of retrieve_api_info on node xn.
LoopBody(xn, cn, ct, its) ==
    Continue(Route(xn, AfterHeader(xn, AfterBoundary(xn, cn, ct, its))))

-----------------------------------------------------------------------------
(* Schema Validator *)

\* while t.startswith("Array of "): t = t[len("Array of "):]
RECURSIVE StripArrayOf(_)
StripArrayOf(t) == IF StartsWithArrayOf(t) THEN StripArrayOf(Drop(t, 2)) ELSE t

Known(its, t) == t \in Keys(its[TYPES]) \/ t \in TG_CORE_TYPES

Line(msg, arg) == [msg |-> msg, arg |-> arg]

\* Lines 253-258: for st in subtypes
RECURSIVE SubtypeLoop(_, _, _, _, _, _)
SubtypeLoop(its, t, subtypes, j, lg, issue) ==
    IF j > Len(subtypes) THEN [items |-> its, log |-> lg, issue_found |-> issue]
    ELSE LET st == subtypes[j]
         IN  IF st \in Keys(its[TYPES])
             THEN LET rec == Entity(its, TYPES, st)
                      its1 == Put(its, TYPES, st,
                                  Set(rec, "subtype_of",
                                      Append(Get(rec, "subtype_of", <<>>), t)))
                  IN  SubtypeLoop(its1, t, subtypes, j + 1, lg, issue)
             ELSE SubtypeLoop(its, t, subtypes, j + 1,
                              Append(lg, Line("USES INVALID SUBTYPE", <<t, st>>)), TRUE)

\* Lines 261-269: for param in fields.  The inner loop rebinds t to each
\* stripped type in turn and the test, placed after it, reads the last one.
RECURSIVE FieldLoop(_, _, _, _, _, _)
FieldLoop(its, fields, j, t, lg, issue) ==
    IF j > Len(fields) THEN [log |-> lg, issue_found |-> issue]
    ELSE LET types == fields[j].types
             t1 == IF types = <<>> THEN t ELSE StripArrayOf(types[Len(types)])
         IN  IF ~Known(its, t1)
             THEN FieldLoop(its, fields, j + 1, t1,
                            Append(lg, Line("UNKNOWN FIELD TYPE", t1)), TRUE)
             ELSE FieldLoop(its, fields, j + 1, t1, lg, issue)

\* Lines 238-269: for t, values in items[TYPES].items(), from the i-th on
RECURSIVE TypeLoop(_, _, _, _)
TypeLoop(its, i, lg, issue) ==
    IF i > Len(its[TYPES]) THEN [items |-> its, log |-> lg, issue_found |-> issue]
    ELSE LET values == its[TYPES][i]
             t == values.name
             fields == Get(values, "fields", <<>>)
             subtypes == Get(values, "subtypes", <<>>)
         IN  IF Get(values, "href", "") = ""
             THEN TypeLoop(its, i + 1, Append(lg, Line("has no link!", t)), TRUE)
             ELSE IF Len(fields) = 0 /\ subtypes = <<>> /\ t \notin APPROVED_NO_SUBTYPES
             THEN TypeLoop(its, i + 1,
                           Append(lg, Line("has no fields or subtypes, and is not approved", t)),
                           TRUE)
             ELSE LET s == IF Len(fields) = 0
                           THEN SubtypeLoop(its, t, subtypes, 1, lg, issue)
                           ELSE [items |-> its, log |-> lg, issue_found |-> issue]
                      f == FieldLoop(s.items, fields, 1, t, s.log, s.issue_found)
                  IN  TypeLoop(s.items, i + 1, f.log, f.issue_found)

verify_type_parameters(its) == TypeLoop(its, 1, <<>>, FALSE)

\* Lines 295-303: every type of every param is tested
RECURSIVE ParamTypeLoop(_, _, _, _, _)
ParamTypeLoop(its, types, k, lg, issue) ==
    IF k > Len(types) THEN [log |-> lg, issue_found |-> issue]
    ELSE LET t == StripArrayOf(types[k])
         IN  IF ~Known(its, t)
             THEN ParamTypeLoop(its, types, k + 1, Append(lg, Line("UNKNOWN PARAM TYPE", t)), TRUE)
             ELSE ParamTypeLoop(its, types, k + 1, lg, issue)

RECURSIVE ParamLoop(_, _, _, _, _)
ParamLoop(its, fields, j, lg, issue) ==
    IF j > Len(fields) THEN [log |-> lg, issue_found |-> issue]
    ELSE LET r == ParamTypeLoop(its, fields[j].types, 1, lg, issue)
         IN  ParamLoop(its, fields, j + 1, r.log, r.issue_found)

\* Lines 306-312: for ret in values.get("returns", [])
RECURSIVE ReturnLoop(_, _, _, _, _)
ReturnLoop(its, returns, k, lg, issue) ==
    IF k > Len(returns) THEN [log |-> lg, issue_found |-> issue]
    ELSE LET ret == StripArrayOf(returns[k])
         IN  IF ~Known(its, ret)
             THEN ReturnLoop(its, returns, k + 1, Append(lg, Line("UNKNOWN RETURN TYPE", ret)), TRUE)
             ELSE ReturnLoop(its, returns, k + 1, lg, issue)

\* Lines 278-312: for method, values in items[METHODS].items(), from the i-th on
RECURSIVE MethodLoop(_, _, _, _)
MethodLoop(its, i, lg, issue) ==
    IF i > Len(its[METHODS]) THEN [log |-> lg, issue_found |-> issue]
    ELSE LET values == its[METHODS][i]
             method == values.name
             returns == Get(values, "returns", <<>>)
         IN  IF Get(values, "href", "") = ""
             THEN MethodLoop(its, i + 1, Append(lg, Line("has no link!", method)), TRUE)
             ELSE IF returns = <<>>
             THEN MethodLoop(its, i + 1, Append(lg, Line("has no return types!", method)), TRUE)
             ELSE LET lg1 == IF Len(returns) > 1
                             THEN Append(lg, Line("has multiple return types", method))
                             ELSE lg
                      p == ParamLoop(its, Get(values, "fields", <<>>), 1, lg1, issue)
                      r == ReturnLoop(its, returns, 1, p.log, p.issue_found)
                  IN  MethodLoop(its, i + 1, r.log, r.issue_found)

verify_method_parameters(its) == MethodLoop(its, 1, <<>>, FALSE)

FAILED == Line("Failed to validate schema. View logs above for more information.", <<>>)

-----------------------------------------------------------------------------
(* The documents: the nodes dev_page_content may hold *)

MaxNodes == 4
MaxTypeLen == 5

EntityNames == {<<"A">>, <<"B">>, <<"InputFile">>, <<"m">>}

Boundaries == {[name |-> "h3"], [name |-> "hr"]}

Headers ==
    \* a header without <a>, a sub-anchor, a header with no text
    {[name |-> "h4", anchor |-> <<>>, text |-> <<"A">>],
     [name |-> "h4", text |-> <<"Sending", "files">>,
      anchor |-> <<[name |-> <<"sending", "-", "files">>, href |-> "#sending-files"]>>],
     [name |-> "h4", text |-> <<>>, anchor |-> <<[name |-> <<>>, href |-> "#"]>>]}
    \cup
    \* entity headers, with and without a link
    {[name |-> "h4", text |-> t, anchor |-> <<[name |-> t, href |-> h]>>] :
        t \in EntityNames, h \in {"", "#entity"}}

Paragraphs ==
    {[name |-> "p", text |-> t] :
        t \in {<<"Use", NL, "this", "U+2026">>,
               <<"Returns", "the">>,
               <<"Messages", "on", "success", ".">>,
               <<"On", "success", ",", "Int", "is", "returned", ".">>,
               <<"True", "is", "returned", ".">>,
               <<"Returns", "Array", "of", "Array", "of", "A">>}}

TypeCells == {<<"B", "or", "String">>, <<"Array", "of", "Array", "of", "A">>}

Row3(t) == <<<<"f">>, t, <<"Optional", ".", "x">>>>
Row4(t) == <<<<"f">>, t, <<"Yes">>, <<"x">>>>

Tables ==
    {[name |-> "table", rows |-> r] :
        r \in {<<>>, <<Row3(<<"String">>), Row4(<<"String">>)>>}
              \cup {<<Row3(t)>> : t \in TypeCells}
              \cup {<<Row4(t)>> : t \in TypeCells}}

Lists ==
    {[name |-> "ul", li |-> l] : l \in {<<<<"B">>>>, <<<<"B">>, <<"X">>>>}}

\* The tokens of the type expressions given to the parser on its own.
TypeTokens ==
    {"Array", "of", "or", "and", ",", "Int", "True", "Float", "number", "Messages"}

\* A type cell names a type first and last: it neither starts nor ends with
\* a conjunction or a comma.
TypeExprs ==
    {t \in UNION {[1..k -> TypeTokens] : k \in 0..MaxTypeLen} :
        t # <<>> => {t[1], t[Len(t)]} \cap {"or", "and", ",", "of"} = {}}

-----------------------------------------------------------------------------
(* The program *)

Init ==
    /\ pc = "scrape"
    /\ n = 0
    /\ x = [name |-> "none"]
    /\ curr_name = <<>>
    /\ curr_type = ""
    /\ items = [methods |-> <<>>, types |-> <<>>]
    /\ log = <<>>
    /\ api_json = <<>>
    /\ t_in = <<>>
    /\ t_out = <<>>

\* One iteration of the for loop of retrieve_api_info, on node xn.
Step(xn) ==
    /\ LET r == LoopBody(xn, curr_name, curr_type, items)
       IN  /\ pc' = r.pc
           /\ curr_name' = r.curr_name
           /\ curr_type' = r.curr_type
           /\ items' = r.items
    /\ x' = xn
    /\ n' = n + 1
    /\ UNCHANGED <<log, api_json, t_in, t_out>>

\* The loop is running and the document has a next node.
InLoop == pc = "scrape" /\ n < MaxNodes

SectionBoundary == \E xn \in Boundaries : InLoop /\ Step(xn)
Header == \E xn \in Headers : InLoop /\ Step(xn)
Paragraph == \E xn \in Paragraphs : InLoop /\ Step(xn)
Table == \E xn \in Tables : InLoop /\ Step(xn)
List == \E xn \in Lists : InLoop /\ Step(xn)

\* The loop ends: retrieve_api_info returns items.
EndOfDocument ==
    /\ pc = "scrape"
    /\ pc' = "verify_types"
    /\ UNCHANGED <<n, x, curr_name, curr_type, items, log, api_json, t_in, t_out>>

\* Line 319, left operand of "or": a defect ends the run at once.
VerifyTypes ==
    /\ pc = "verify_types"
    /\ LET r == verify_type_parameters(items)
       IN  /\ items' = r.items
           /\ log' = IF r.issue_found THEN Append(log \o r.log, FAILED) ELSE log \o r.log
           /\ pc' = IF r.issue_found THEN "failed" ELSE "verify_methods"
    /\ UNCHANGED <<n, x, curr_name, curr_type, api_json, t_in, t_out>>

\* Line 319, right operand of "or".
VerifyMethods ==
    /\ pc = "verify_methods"
    /\ LET r == verify_method_parameters(items)
       IN  /\ log' = IF r.issue_found THEN Append(log \o r.log, FAILED) ELSE log \o r.log
           /\ pc' = IF r.issue_found THEN "failed" ELSE "dump"
    /\ UNCHANGED <<n, x, curr_name, curr_type, items, api_json, t_in, t_out>>

\* Lines 323-324.
Dump ==
    /\ pc = "dump"
    /\ api_json' = <<items>>
    /\ pc' = "done"
    /\ UNCHANGED <<n, x, curr_name, curr_type, items, log, t_in, t_out>>

Next ==
    \/ SectionBoundary
    \/ Header
    \/ Paragraph
    \/ Table
    \/ List
    \/ EndOfDocument
    \/ VerifyTypes
    \/ VerifyMethods
    \/ Dump

Spec == Init /\ [][Next]_vars

\* The exit status of the process once it has ended.
ExitStatus == IF pc = "done" THEN 0 ELSE 1

-----------------------------------------------------------------------------
(* The Type-String Parser on its own *)

InitParser ==
    /\ pc = "parse"
    /\ n = 0
    /\ x = [name |-> "none"]
    /\ curr_name = <<>>
    /\ curr_type = ""
    /\ items = [methods |-> <<>>, types |-> <<>>]
    /\ log = <<>>
    /\ api_json = <<>>
    /\ t_in \in TypeExprs
    /\ t_out = <<>>

Parse ==
    /\ pc = "parse"
    /\ t_out' = <<clean_tg_type(t_in)>>
    /\ pc' = "parsed"
    /\ UNCHANGED <<n, x, curr_name, curr_type, items, log, api_json, t_in>>

NextParser == Parse

SpecParser == InitParser /\ [][NextParser]_vars

-----------------------------------------------------------------------------
(* Properties *)

Range(f) == {f[i] : i \in DOMAIN f}
IsPrefix(a, b) == Len(a) <= Len(b) /\ SubSeq(b, 1, Len(a)) = a
Records(c) == Range(items[c])
Open == curr_type # "" /\ curr_name # <<>>
\* The step consumes a document node.
NodeStep == n' = n + 1
Description(its, c, name) ==
    IF name \in Keys(its[c]) THEN Get(Entity(its, c, name), "description", <<>>) ELSE <<>>

\* The referential defects of a registry, as the lines that report them.
TypeDefects(its) ==
    LET T == Range(its[TYPES])
    IN  {Line("has no link!", r.name) : r \in {r \in T : Get(r, "href", "") = ""}}
        \cup {Line("has no fields or subtypes, and is not approved", r.name) :
                r \in {r \in T : /\ Get(r, "fields", <<>>) = <<>>
                                 /\ Get(r, "subtypes", <<>>) = <<>>
                                 /\ r.name \notin APPROVED_NO_SUBTYPES}}
        \cup UNION {{Line("USES INVALID SUBTYPE", <<r.name, st>>) :
                        st \in {st \in Range(Get(r, "subtypes", <<>>)) :
                                  st \notin Keys(its[TYPES])}} : r \in T}
        \cup UNION {UNION {{Line("UNKNOWN FIELD TYPE", StripArrayOf(t)) :
                              t \in {t \in Range(f.types) : ~Known(its, StripArrayOf(t))}} :
                           f \in Range(Get(r, "fields", <<>>))} : r \in T}

MethodDefects(its) ==
    LET M == Range(its[METHODS])
    IN  {Line("has no link!", r.name) : r \in {r \in M : Get(r, "href", "") = ""}}
        \cup {Line("has no return types!", r.name) :
                r \in {r \in M : Get(r, "returns", <<>>) = <<>>}}
        \cup UNION {UNION {{Line("UNKNOWN PARAM TYPE", StripArrayOf(t)) :
                              t \in {t \in Range(f.types) : ~Known(its, StripArrayOf(t))}} :
                           f \in Range(Get(r, "fields", <<>>))} : r \in M}
        \cup UNION {{Line("UNKNOWN RETURN TYPE", StripArrayOf(t)) :
                        t \in {t \in Range(Get(r, "returns", <<>>)) :
                                 ~Known(its, StripArrayOf(t))}} : r \in M}

\* C1: when validation fails the run, every referential defect of the
\* registry, of the types and of the methods, has been reported.
AllDefectsReported ==
    pc = "failed" => TypeDefects(items) \cup MethodDefects(items) \subseteq Range(log)

\* Every type name a record refers to: in its fields, subtypes and returns.
References(r) ==
    UNION {Range(f.types) : f \in Range(Get(r, "fields", <<>>))}
    \cup Range(Get(r, "subtypes", <<>>))
    \cup Range(Get(r, "returns", <<>>))

\* C2: after a successful run every type reference, stripped of its
\* "Array of " prefixes, is a core type or a key of the types mapping.
ReferencesResolve ==
    pc = "done" =>
        \A c \in {TYPES, METHODS} : \A r \in Records(c) : \A t \in References(r) :
            Known(items, StripArrayOf(t))

TypesPassDone == pc \in {"verify_methods", "dump", "done", "failed"}

\* C3: after the types pass, if A's subtypes contains B and B is a type,
\* then B's subtype_of contains A.
SubtypeBackReference ==
    TypesPassDone =>
        \A a \in Records(TYPES) : \A b \in Records(TYPES) :
            b.name \in Range(Get(a, "subtypes", <<>>))
                => a.name \in Range(Get(b, "subtype_of", <<>>))

\* C4: a table of an open entity with a row of the wrong width aborts the
\* run at that node: the registry is as it was, nothing was validated or
\* written, the exit status is not zero and no step follows.
TableAbortIsFinal ==
    [][/\ (/\ NodeStep
           /\ x'.name = "table"
           /\ Open
           /\ \E i \in 1..Len(x'.rows) : ~RowFits(curr_type, x'.rows[i]))
          => /\ pc' = "abort_table"
             /\ ExitStatus' # 0
             /\ items' = items
             /\ log' = <<>>
             /\ api_json' = <<>>
       /\ pc # "abort_table"]_vars

\* A table whose second row has the wrong width aborted the run.
TableAbortWitness ==
    /\ pc = "abort_table"
    /\ x.name = "table"
    /\ Len(x.rows) = 2
    /\ RowFits(curr_type, x.rows[1])
    /\ items[TYPES] # <<>>

\* C5: a section boundary or a sub-anchor header empties the context, and
\* with the context empty a paragraph, table or list leaves the registry and
\* the context as they are.
EmptyContextSkips ==
    [][NodeStep =>
        /\ (\/ x'.name \in {"h3", "hr"}
            \/ x'.name = "h4" /\ x'.anchor # <<>> /\ HasDash(x'.anchor[1].name))
           => curr_name' = <<>> /\ curr_type' = "" /\ pc' = "scrape"
        /\ (curr_name = <<>> /\ curr_type = "" /\ x'.name \in {"p", "table", "ul"})
           => /\ items' = items
              /\ curr_name' = <<>>
              /\ curr_type' = ""
              /\ pc' = "scrape"]_vars

\* A node was skipped after a boundary closed an entity.
EmptyContextWitness ==
    /\ pc = "scrape"
    /\ x.name \in {"p", "table", "ul"}
    /\ curr_name = <<>>
    /\ curr_type = ""
    /\ items[TYPES] # <<>>

\* C6: a header that fails to parse does not abort the run.
HeaderNeverAborts == x.name = "h4" => pc # "raised"

AliasNames == {<<"Messages">>, <<"Float", "number">>, <<"Int">>, <<"True">>, <<"Bool">>}

\* C7: no element of the parser's result, under any "Array of " nesting,
\* still names an alias.
ParserOutputCanonical ==
    pc = "parsed" => \A i \in 1..Len(t_out[1]) : StripArrayOf(t_out[1][i]) \notin AliasNames

\* C8: a record that exists is never removed and its description only grows
\* by appending.
RecordsOnlyGrow ==
    [][\A c \in {TYPES, METHODS} : \A name \in Keys(items[c]) :
          /\ name \in Keys(items'[c])
          /\ IsPrefix(Description(items, c, name), Description(items', c, name))]_vars

\* C8, amended: a record that exists is never removed, and its description
\* only grows by appending, except at a header with the record's own text,
\* which replaces the record by a fresh one without description.
RecordsGrowBetweenHeaders ==
    [][\A c \in {TYPES, METHODS} : \A name \in Keys(items[c]) :
          /\ name \in Keys(items'[c])
          /\ \/ IsPrefix(Description(items, c, name), Description(items', c, name))
             \/ /\ NodeStep
                /\ x'.name = "h4"
                /\ x'.text = name
                /\ curr_type' = c
                /\ DOMAIN Entity(items', c, name) \subseteq {"name", "href"}]_vars

\* A description has grown twice, the second time by a list.
RecordsGrowWitness ==
    /\ pc = "scrape"
    /\ x.name = "ul"
    /\ \E c \in {TYPES, METHODS} : \E r \in Records(c) :
          Len(Get(r, "description", <<>>)) >= 3

\* C9: a list routed to an open entity appends each item's normalized text,
\* prefixed with the bullet marker, to the entity's description.
ListAlwaysAppended ==
    [][(NodeStep /\ x'.name = "ul" /\ Open) =>
          Description(items', curr_type, curr_name)
            = Description(items, curr_type, curr_name)
              \o [i \in 1..Len(x'.li) |-> <<"-">> \o clean_tg_description(x'.li[i])]]_vars

\* The Return-Type Inferrer on a description: <<>> when neither pattern
\* matches, else <<the return types>>.
Inferred(description_items) ==
    LET d == JoinLines(description_items)
    IN  IF ret_search(d) # <<>> THEN <<extract_return_type(Strip(ret_search(d)[1]))>>
        ELSE IF ret_search2(d) # <<>> THEN <<extract_return_type(Strip(ret_search2(d)[1]))>>
        ELSE <<>>

\* C10: after a step that leaves a method open, the method's returns is what
\* the inferrer gives on its whole description, and is unset exactly when
\* neither pattern matches it.
ReturnsFollowDescription ==
    (pc = "scrape" /\ curr_type = METHODS /\ curr_name # <<>>) =>
        LET rec == Entity(items, METHODS, curr_name)
            inf == Inferred(Get(rec, "description", <<>>))
        IN  IF inf = <<>> THEN ~Has(rec, "returns")
            ELSE Has(rec, "returns") /\ rec.returns = inf[1]

\* The returns of an open method come from a description of several lines
\* and differ from what its first line alone gives.
ReturnsFollowWitness ==
    /\ pc = "scrape"
    /\ curr_type = METHODS
    /\ curr_name # <<>>
    /\ LET rec == Entity(items, METHODS, curr_name)
       IN  /\ Has(rec, "returns")
           /\ Len(Get(rec, "description", <<>>)) >= 2
           /\ <<rec.returns>> # Inferred(<<rec.description[1]>>)

=============================================================================
